---- MODULE Spec2Model ----
(***************************************************************************)
(* A model of the minikeystore storage engine (package storage): the       *)
(* key -> Item mapping, the sorted index kept in a Go slice, the RWMutex,  *)
(* and the nine public operations.                                         *)
(*                                                                         *)
(* Go strings that are compared, searched or globbed (keys, patterns) are  *)
(* sequences of one-character strings; payload strings (list elements, map *)
(* keys and values) are only stored and copied, and are TLA+ strings.      *)
(* Slice indices are 0-based as in the source; a[i] of the source is       *)
(* a[i + 1] here.                                                          *)
(***************************************************************************)
EXTENDS Integers, Sequences, FiniteSets, TLC

(***************************************************************************)
(* Bounds of the model and the inputs the operations are called with.      *)
(***************************************************************************)
\* the longest list Set or Append builds
MaxListLen == 2

\* The callers' inputs come in workloads.  Of the sequential ones, "keys"
\* spreads small payloads over several keys (the index grows, shifts and
\* shrinks), "values" writes every shape of payload to one key, and in
\* "kept" the caller, working on two keys, keeps the slice its last
\* GetIndex returned.  In "shared" the caller, working on two keys, has a
\* map[string]string of its own that it hands to Set time and again.  Of the
\* concurrent ones, "conc" lets two goroutines call any operation on two
\* keys, "live" does so on one key, and "writers" gives each of three
\* goroutines a key of its own to Set and Append.
Workloads == {"keys", "values", "kept"}

\* keys the callers use
KeysOf(w) ==
    CASE w \in {"values", "live"} -> {<<"a">>}
      [] w \in {"conc", "kept", "shared"} -> {<<"a">>, <<"b">>}
      [] OTHER -> {<<"a">>, <<"a", "b">>, <<"b">>}

\* payload strings the callers write
ValuesOf(w) == IF w = "values" THEN {"x", "y"} ELSE {"x"}

\* secondary keys of the map type
MapKeysOf(w) == IF w = "values" THEN {"m", "n"} ELSE {"m"}

\* patterns GetIndex is called with: "*", exact ones (present or not, one
\* sorting after every key), and globs with the wildcard in front, at the
\* end, in the middle, on both sides, doubled, and after a capital
Patterns ==
    { <<"*">>, <<"a">>, <<"b">>, <<"c">>, <<"a", "*">>, <<"*", "b">>,
      <<"b", "*">>, <<"a", "*", "b">>, <<"a", "*", "a">>, <<"*", "a", "*">>,
      <<"*", "*">>, <<"A", "*">> }

PatternsOf(w) ==
    CASE w = "conc" -> {<<"*">>, <<"b">>, <<"*", "b">>}
      [] w = "live" -> {<<"*">>, <<"a">>, <<"*", "a">>}
      [] OTHER -> Patterns

\* the goroutines calling concurrently (a sequential workload has one
\* caller, which is not named)
ProcsOf(w) ==
    CASE w \in {"conc", "live"} -> {"p1", "p2"}
      [] w = "writers" -> {"p1", "p2", "p3"}
      [] OTHER -> {}

\* the key a writer of the "writers" workload has to itself
KeyOf(p) ==
    CASE p = "p1" -> <<"a">>
      [] p = "p2" -> <<"a", "b">>
      [] p = "p3" -> <<"b">>

(***************************************************************************)
(* Go strings as byte sequences.                                           *)
(***************************************************************************)
\* the byte of a character (Go compares strings bytewise)
Code(c) ==
    CASE c = "*" -> 42
      [] c = ":" -> 58
      [] c = "A" -> 65
      [] c = "a" -> 97
      [] c = "b" -> 98
      [] c = "c" -> 99

\* x < y on Go strings
RECURSIVE StrLess(_, _)
StrLess(x, y) ==
    IF y = <<>> THEN FALSE
    ELSE IF x = <<>> THEN TRUE
    ELSE IF Head(x) = Head(y) THEN StrLess(Tail(x), Tail(y))
    ELSE Code(Head(x)) < Code(Head(y))

\* the zero value of a Go string
EmptyString == <<>>

(***************************************************************************)
(* Errors, by their message (the formatted arguments left out).            *)
(***************************************************************************)
NoErr == "nil"
ErrKeyNotExist == "key does not exist"
ErrTypeMismatch == "type is not"
ErrItemNotExist == "item does not exist"
ErrUnknownType == "unknown type"
ErrListEmpty == "list is empty"
ErrMapKeyNotExist == "map key does not exists"
PanicIndexOutOfRange == "panic: runtime error: index out of range"

(***************************************************************************)
(* Slices, maps and Items.  A Go slice or map is nil or not; a nil one has *)
(* no elements.                                                            *)
(***************************************************************************)
NilSlice == [nil |-> TRUE, elems |-> <<>>]
MkSlice(s) == [nil |-> FALSE, elems |-> s]
EmptyMap == [k \in {} |-> ""]
\* A Go map is a reference: obj names the map object when the caller holds
\* on to it and may hand it in again, and is "none" for a map nobody else
\* refers to.
NilMap == [nil |-> TRUE, kv |-> EmptyMap, obj |-> "none"]
MkMap(f) == [nil |-> FALSE, kv |-> f, obj |-> "none"]

\* the zero Item with its Type set: &Item{Type: expectedType}
NewItem(t) ==
    [Type |-> t, stringValue |-> "", listValue |-> NilSlice, mapValue |-> NilMap]

\* m[k] = v on a Go map's contents
MapPut(f, k, v) == [x \in (DOMAIN f) \cup {k} |-> IF x = k THEN v ELSE f[x]]

\* delete(m, k) on a Go map's contents
MapRemove(f, k) == [x \in (DOMAIN f) \ {k} |-> f[x]]

(***************************************************************************)
(* Go values handed to Set, as <<dynamic type, payload>>.                  *)
(***************************************************************************)
GoString(s) == <<"string", s>>
GoStrings(sl) == <<"[]string", sl>>
GoMapSS(m) == <<"map[string]string", m>>
GoIfaces(sl) == <<"[]interface{}", sl>>
GoMapSI(m) == <<"map[string]interface{}", m>>
GoInt(n) == <<"int", n>>

\* fmt.Sprintf("%s", val): a string is copied; any other operand is the
\* bad-verb text %!s(int=7)
SprintfS(val) ==
    IF val[1] = "string" THEN val[2]
    ELSE CASE val = GoInt("7") -> "%!s(int=7)"

\* the type switch of Set with the []interface{} case sizing the list but
\* not filling it
SetItemUnfilled(value) ==
    LET i == NewItem("")
        t == value[1]
        v == value[2]
    IN  CASE t = "string" ->
               [err |-> NoErr, item |-> [i EXCEPT !.Type = "string", !.stringValue = v]]
          [] t = "[]string" ->
               [err |-> NoErr, item |-> [i EXCEPT !.Type = "list", !.listValue = v]]
          [] t = "map[string]string" ->
               [err |-> NoErr, item |-> [i EXCEPT !.Type = "map", !.mapValue = v]]
          [] t = "[]interface{}" ->
               [err |-> NoErr,
                item |-> [i EXCEPT !.Type = "list",
                                   !.listValue = MkSlice([n \in 1..Len(v.elems) |-> ""])]]
          [] t = "map[string]interface{}" ->
               [err |-> NoErr,
                item |-> [i EXCEPT !.Type = "map",
                                   !.mapValue = MkMap([k \in DOMAIN v.kv |->
                                                          SprintfS(v.kv[k])])]]
          [] OTHER -> [err |-> ErrUnknownType, item |-> i]

\* the type switch of Set with the string case leaving the Type unset
SetItemUntagged(value) ==
    IF value[1] = "string"
    THEN [err |-> NoErr, item |-> [NewItem("") EXCEPT !.stringValue = value[2]]]
    ELSE SetItemUnfilled(value)

\* the type switch of Set: the Item built from value, or the error
SetItem(value) ==
    LET i == NewItem("")
        t == value[1]
        v == value[2]
    IN  CASE t = "string" ->
               [err |-> NoErr, item |-> [i EXCEPT !.Type = "string", !.stringValue = v]]
          [] t = "[]string" ->
               [err |-> NoErr, item |-> [i EXCEPT !.Type = "list", !.listValue = v]]
          [] t = "map[string]string" ->
               [err |-> NoErr, item |-> [i EXCEPT !.Type = "map", !.mapValue = v]]
          [] t = "[]interface{}" ->
               [err |-> NoErr,
                item |-> [i EXCEPT !.Type = "list",
                                   !.listValue = MkSlice([n \in 1..Len(v.elems) |->
                                                             SprintfS(v.elems[n])])]]
          [] t = "map[string]interface{}" ->
               [err |-> NoErr,
                item |-> [i EXCEPT !.Type = "map",
                                   !.mapValue = MkMap([k \in DOMAIN v.kv |->
                                                          SprintfS(v.kv[k])])]]
          [] OTHER -> [err |-> ErrUnknownType, item |-> i]

(***************************************************************************)
(* encoding/json: Marshal, as the JSON value it writes.  An object's       *)
(* members are written sorted by key, so an object is its key -> value map.*)
(***************************************************************************)
JNull == <<"null">>
JString(s) == <<"string", s>>
JNumber(n) == <<"number", n>>
JArray(a) == <<"array", a>>
JObject(o) == <<"object", o>>

MarshalString(s) == JString(s)
MarshalStrings(sl) ==
    IF sl.nil THEN JNull
    ELSE JArray([n \in 1..Len(sl.elems) |-> JString(sl.elems[n])])
MarshalMap(m) ==
    IF m.nil THEN JNull
    ELSE JObject([k \in DOMAIN m.kv |-> JString(m.kv[k])])

\* an interface{} element: a string or a number
MarshalElem(val) == IF val[1] = "string" THEN JString(val[2]) ELSE JNumber(val[2])

\* json.Marshal of a value handed to Set
Marshal(value) ==
    LET t == value[1]
        v == value[2]
    IN  CASE t = "string" -> MarshalString(v)
          [] t = "[]string" -> MarshalStrings(v)
          [] t = "map[string]string" -> MarshalMap(v)
          [] t = "[]interface{}" ->
               IF v.nil THEN JNull
               ELSE JArray([n \in 1..Len(v.elems) |-> MarshalElem(v.elems[n])])
          [] t = "map[string]interface{}" ->
               IF v.nil THEN JNull
               ELSE JObject([k \in DOMAIN v.kv |-> MarshalElem(v.kv[k])])
          [] t = "int" -> JNumber(v)

(***************************************************************************)
(* The index: a Go slice, that is a backing array (as long as the slice's  *)
(* capacity) and a length.  The slots past the length keep what was last   *)
(* written there.                                                          *)
(***************************************************************************)
\* make([]string, 0)
EmptyIndex == [array |-> <<>>, len |-> 0]

\* the elements of the slice
Elems(ix) == SubSeq(ix.array, 1, ix.len)

Cap(ix) == Len(ix.array)

\* n zero strings
Zeros(n) == [j \in 1..n |-> EmptyString]

\* sort.Search(n, func(i) { a[i] >= x }) with i, j its loop variables
RECURSIVE SearchLoop(_, _, _, _)
SearchLoop(a, x, i, j) ==
    IF i < j
    THEN LET h == (i + j) \div 2
         IN  IF StrLess(a[h + 1], x)
             THEN SearchLoop(a, x, h + 1, j)
             ELSE SearchLoop(a, x, i, h)
    ELSE i

\* s.index.Search(key)
Search(a, x) == SearchLoop(a, x, 0, Len(a))

\* the capacity append grows a full slice to (runtime growslice, below
\* its doubling threshold)
GrowCap(oldCap, newLen) == IF newLen > 2 * oldCap THEN newLen ELSE 2 * oldCap

\* append(s[:i], tail...) on the slice ix: in place when the
\* capacity suffices, into a fresh array otherwise
AppendAt(ix, i, tail) ==
    LET newLen == i + Len(tail)
    IN  IF newLen <= Cap(ix)
        THEN [array |-> SubSeq(ix.array, 1, i) \o tail
                          \o SubSeq(ix.array, newLen + 1, Cap(ix)),
              len |-> newLen]
        ELSE [array |-> SubSeq(ix.array, 1, i) \o tail
                          \o Zeros(GrowCap(Cap(ix), newLen) - newLen),
              len |-> newLen]

\* updateIndex with the add branch appending at the end, wherever the
\* key sorts
updateIndexAtEnd(ix, key, add) ==
    LET i == Search(Elems(ix), key)
    IN  IF add
        THEN IF i < ix.len /\ ix.array[i + 1] = key THEN ix
             ELSE AppendAt(ix, ix.len, <<key>>)
        ELSE IF i = ix.len THEN ix
             ELSE IF ix.array[i + 1] # key THEN ix
             ELSE AppendAt(ix, i, SubSeq(ix.array, i + 2, ix.len))

\* updateIndex with the add branch inserting the key without looking
\* whether it is there
updateIndexAddsAgain(ix, key, add) ==
    LET i == Search(Elems(ix), key)
    IN  IF add
        THEN AppendAt(ix, i, <<key>> \o SubSeq(ix.array, i + 1, ix.len))
        ELSE IF i = ix.len THEN ix
             ELSE IF ix.array[i + 1] # key THEN ix
             ELSE AppendAt(ix, i, SubSeq(ix.array, i + 2, ix.len))

\* updateIndex(key, add) on the slice ix
updateIndex(ix, key, add) ==
    LET i == Search(Elems(ix), key)
    IN  IF add
        THEN IF i = ix.len THEN AppendAt(ix, ix.len, <<key>>)
             ELSE IF ix.array[i + 1] = key THEN ix
             ELSE AppendAt(ix, i, <<key>> \o SubSeq(ix.array, i + 1, ix.len))
        ELSE IF i = ix.len THEN ix
             ELSE IF ix.array[i + 1] # key THEN ix
             ELSE AppendAt(ix, i, SubSeq(ix.array, i + 2, ix.len))

(***************************************************************************)
(* strings and go-glob, as GetIndex uses them.                             *)
(***************************************************************************)
\* strings.Split(s, "*"): the parts between the wildcards
RECURSIVE SplitGlob(_)
SplitGlob(s) ==
    IF \A n \in 1..Len(s) : s[n] # "*" THEN <<s>>
    ELSE LET n == CHOOSE m \in 1..Len(s) :
                      s[m] = "*" /\ \A l \in 1..(m - 1) : s[l] # "*"
         IN  <<SubSeq(s, 1, n - 1)>> \o SplitGlob(SubSeq(s, n + 1, Len(s)))

HasPrefix(s, pre) == Len(pre) <= Len(s) /\ SubSeq(s, 1, Len(pre)) = pre
HasSuffix(s, suf) ==
    Len(suf) <= Len(s) /\ SubSeq(s, Len(s) - Len(suf) + 1, Len(s)) = suf

\* strings.Index(s, sub): the first 0-based place of sub in s, or -1
StringsIndex(s, sub) ==
    LET at == {n \in 0..(Len(s) - Len(sub)) : SubSeq(s, n + 1, n + Len(sub)) = sub}
    IN  IF at = {} THEN -1 ELSE CHOOSE n \in at : \A m \in at : n <= m

\* the loop of glob.Glob over the parts before the last one: FALSE on a
\* mismatch, else what is left of subj
RECURSIVE GlobLoop(_, _, _, _)
GlobLoop(parts, subj, i, leadingGlob) ==
    IF i >= Len(parts) - 1 THEN [ok |-> TRUE, subj |-> subj]
    ELSE LET idx == StringsIndex(subj, parts[i + 1])
         IN  IF (i = 0 /\ ~leadingGlob /\ idx # 0) \/ (i # 0 /\ idx < 0)
             THEN [ok |-> FALSE, subj |-> subj]
             ELSE GlobLoop(parts,
                           SubSeq(subj, idx + Len(parts[i + 1]) + 1, Len(subj)),
                           i + 1, leadingGlob)

\* glob.Glob looking for the parts anywhere in subj, in their order
GlobUnanchored(pattern, subj) ==
    LET parts == SplitGlob(pattern) \o <<EmptyString>>
    IN  GlobLoop(parts, subj, 0, TRUE).ok

\* glob.Glob(pattern, subj)
Glob(pattern, subj) ==
    IF pattern = <<>> THEN subj = pattern
    ELSE IF pattern = <<"*">> THEN TRUE
    ELSE LET parts == SplitGlob(pattern)
         IN  IF Len(parts) = 1 THEN subj = pattern
             ELSE LET r == GlobLoop(parts, subj, 0, HasPrefix(pattern, <<"*">>))
                  IN  r.ok /\ (HasSuffix(pattern, <<"*">>)
                               \/ HasSuffix(r.subj, parts[Len(parts)]))

\* the elements of a that match the pattern, in a's order
RECURSIVE GlobFilter(_, _)
GlobFilter(search, a) ==
    IF a = <<>> THEN <<>>
    ELSE (IF Glob(search, Head(a)) THEN <<Head(a)>> ELSE <<>>)
         \o GlobFilter(search, Tail(a))

\* GetIndex(search) on the slice ix: the panic of an out-of-range read, or
\* the result (for "*" the index slice itself, not a copy)
GetIndexOf(ix, search) ==
    IF search = <<"*">>
    THEN [err |-> NoErr, alias |-> TRUE, val |-> Elems(ix)]
    ELSE IF Len(SplitGlob(search)) = 1
    THEN LET index == Search(Elems(ix), search)
         IN  IF index >= ix.len
             THEN [err |-> PanicIndexOutOfRange, alias |-> FALSE, val |-> <<>>]
             ELSE IF ix.array[index + 1] # search
             THEN [err |-> NoErr, alias |-> FALSE, val |-> <<>>]
             ELSE [err |-> NoErr, alias |-> FALSE, val |-> <<ix.array[index + 1]>>]
    ELSE [err |-> NoErr, alias |-> FALSE, val |-> GlobFilter(search, Elems(ix))]

(***************************************************************************)
(* The operations on the mapping its and the index slice ix, as the code   *)
(* runs them between taking and releasing the lock.  Each gives the error  *)
(* and value returned and the mapping and index left behind.               *)
(***************************************************************************)
Has(its, key) == key \in DOMAIN its

\* s.items[key] = i
Put(its, key, i) == [k \in (DOMAIN its) \cup {key} |-> IF k = key THEN i ELSE its[k]]

\* delete(s.items, key)
Remove(its, key) == [k \in (DOMAIN its) \ {key} |-> its[k]]

Outcome(e, v, its, ix) == [err |-> e, val |-> v, items |-> its, index |-> ix]

\* the Items i and j hold the same map object
SameMap(i, j) == i.mapValue.obj # "none" /\ i.mapValue.obj = j.mapValue.obj

\* s.items[key] = i after a write to i's map: the write shows in every
\* Item holding that map object
PutMap(its, key, i) ==
    [k \in (DOMAIN its) \cup {key} |->
        IF k = key THEN i
        ELSE IF SameMap(its[k], i) THEN [its[k] EXCEPT !.mapValue = i.mapValue]
        ELSE its[k]]

\* checkkey without the comparison of the Item's Type
checkkeyAnyType(its, ix, key, expectedType, create) ==
    IF ~Has(its, key)
    THEN IF ~create
         THEN Outcome(ErrKeyNotExist, NewItem(""), its, ix)
         ELSE Outcome(NoErr, NewItem(expectedType),
                      Put(its, key, NewItem(expectedType)),
                      updateIndex(ix, key, TRUE))
    ELSE Outcome(NoErr, its[key], its, ix)

\* checkkey creating the key whatever the create flag says
checkkeyAlwaysCreates(its, ix, key, expectedType, create) ==
    IF ~Has(its, key)
    THEN Outcome(NoErr, NewItem(expectedType),
                 Put(its, key, NewItem(expectedType)),
                 updateIndex(ix, key, TRUE))
    ELSE IF its[key].Type # expectedType
         THEN Outcome(ErrTypeMismatch, NewItem(""), its, ix)
         ELSE Outcome(NoErr, its[key], its, ix)

\* checkkey(key, expectedType, create): val is the Item found or made
checkkey(its, ix, key, expectedType, create) ==
    IF ~Has(its, key)
    THEN IF ~create
         THEN Outcome(ErrKeyNotExist, NewItem(""), its, ix)
         ELSE Outcome(NoErr, NewItem(expectedType),
                      Put(its, key, NewItem(expectedType)),
                      updateIndex(ix, key, TRUE))
    ELSE IF its[key].Type # expectedType
         THEN Outcome(ErrTypeMismatch, NewItem(""), its, ix)
         ELSE Outcome(NoErr, its[key], its, ix)

GetOf(its, ix, key) ==
    IF ~Has(its, key) THEN Outcome(ErrItemNotExist, JNull, its, ix)
    ELSE LET i == its[key]
         IN  CASE i.Type = "string" ->
                    Outcome(NoErr, MarshalString(i.stringValue), its, ix)
               [] i.Type = "list" ->
                    Outcome(NoErr, MarshalStrings(i.listValue), its, ix)
               [] i.Type = "map" ->
                    Outcome(NoErr, MarshalMap(i.mapValue), its, ix)
               [] OTHER -> Outcome(ErrUnknownType, JNull, its, ix)

\* Set registering the key in the index before looking at the value
SetOfIndexFirst(its, ix, key, value) ==
    LET r == SetItem(value)
        ix2 == IF ~Has(its, key) THEN updateIndex(ix, key, TRUE) ELSE ix
    IN  IF r.err # NoErr THEN Outcome(r.err, "", its, ix2)
        ELSE Outcome(NoErr, "", Put(its, key, r.item), ix2)

\* Set writing into the Item already at the key instead of a fresh one
SetOfInPlace(its, ix, key, value) ==
    LET r == SetItem(value)
        old == IF Has(its, key) THEN its[key] ELSE NewItem("")
        new == CASE r.item.Type = "string" ->
                      [old EXCEPT !.Type = "string", !.stringValue = r.item.stringValue]
                 [] r.item.Type = "list" ->
                      [old EXCEPT !.Type = "list", !.listValue = r.item.listValue]
                 [] OTHER ->
                      [old EXCEPT !.Type = "map", !.mapValue = r.item.mapValue]
    IN  IF r.err # NoErr THEN Outcome(r.err, "", its, ix)
        ELSE Outcome(NoErr, "",
                     Put(its, key, new),
                     IF ~Has(its, key) THEN updateIndex(ix, key, TRUE) ELSE ix)

SetOf(its, ix, key, value) ==
    LET r == SetItem(value)
    IN  IF r.err # NoErr THEN Outcome(r.err, "", its, ix)
        ELSE Outcome(NoErr, "",
                     Put(its, key, r.item),
                     IF ~Has(its, key) THEN updateIndex(ix, key, TRUE) ELSE ix)

\* Delete leaving the key in the index
DeleteOfKeepsIndex(its, ix, key) == Outcome(NoErr, "", Remove(its, key), ix)

DeleteOf(its, ix, key) ==
    Outcome(NoErr, "",
            Remove(its, key),
            IF Has(its, key) THEN updateIndex(ix, key, FALSE) ELSE ix)

\* Append putting the value in front of the list
AppendOfFront(its, ix, key, value) ==
    LET c == checkkey(its, ix, key, "list", TRUE)
    IN  IF c.err # NoErr THEN Outcome(c.err, "", its, ix)
        ELSE Outcome(NoErr, "",
                     Put(c.items, key,
                         [c.val EXCEPT !.listValue =
                              MkSlice(<<value>> \o c.val.listValue.elems)]),
                     c.index)

AppendOf(its, ix, key, value) ==
    LET c == checkkey(its, ix, key, "list", TRUE)
    IN  IF c.err # NoErr THEN Outcome(c.err, "", its, ix)
        ELSE LET i == c.val
                 l == IF i.listValue.nil THEN MkSlice(<<>>) ELSE i.listValue
             IN  Outcome(NoErr, "",
                         Put(c.items, key,
                             [i EXCEPT !.listValue = MkSlice(Append(l.elems, value))]),
                         c.index)

\* Pop taking the first element of the list
PopOfFirst(its, ix, key) ==
    LET c == checkkey(its, ix, key, "list", FALSE)
    IN  IF c.err # NoErr THEN Outcome(c.err, "", its, ix)
        ELSE LET l == c.val.listValue.elems
             IN  IF Len(l) = 0 THEN Outcome(ErrListEmpty, "", its, ix)
                 ELSE Outcome(NoErr, l[1],
                              Put(c.items, key,
                                  [c.val EXCEPT !.listValue = MkSlice(Tail(l))]),
                              c.index)

PopOf(its, ix, key) ==
    LET c == checkkey(its, ix, key, "list", FALSE)
    IN  IF c.err # NoErr THEN Outcome(c.err, "", its, ix)
        ELSE LET l == c.val.listValue.elems
             IN  IF Len(l) = 0 THEN Outcome(ErrListEmpty, "", its, ix)
                 ELSE Outcome(NoErr, l[Len(l)],
                              Put(c.items, key,
                                  [c.val EXCEPT !.listValue =
                                       MkSlice(SubSeq(l, 1, Len(l) - 1))]),
                              c.index)

\* MapGet calling checkkey with create set
MapGetOfCreates(its, ix, key, mkey) ==
    LET c == checkkey(its, ix, key, "map", TRUE)
    IN  IF c.err # NoErr THEN Outcome(c.err, "", its, ix)
        ELSE IF c.val.mapValue.nil THEN Outcome(ErrMapKeyNotExist, "", c.items, c.index)
        ELSE IF mkey \in DOMAIN c.val.mapValue.kv
             THEN Outcome(NoErr, c.val.mapValue.kv[mkey], c.items, c.index)
             ELSE Outcome(ErrMapKeyNotExist, "", c.items, c.index)

MapGetOf(its, ix, key, mkey) ==
    LET c == checkkey(its, ix, key, "map", FALSE)
    IN  IF c.err # NoErr THEN Outcome(c.err, "", its, ix)
        ELSE IF c.val.mapValue.nil THEN Outcome(ErrMapKeyNotExist, "", its, ix)
        ELSE IF mkey \in DOMAIN c.val.mapValue.kv
             THEN Outcome(NoErr, c.val.mapValue.kv[mkey], c.items, c.index)
             ELSE Outcome(ErrMapKeyNotExist, "", c.items, c.index)

\* MapSet starting from an empty map every time
MapSetOfFresh(its, ix, key, mkey, value) ==
    LET c == checkkey(its, ix, key, "map", TRUE)
    IN  IF c.err # NoErr THEN Outcome(c.err, "", its, ix)
        ELSE Outcome(NoErr, "",
                     Put(c.items, key,
                         [c.val EXCEPT !.mapValue = MkMap(MapPut(EmptyMap, mkey, value))]),
                     c.index)

MapSetOf(its, ix, key, mkey, value) ==
    LET c == checkkey(its, ix, key, "map", TRUE)
    IN  IF c.err # NoErr THEN Outcome(c.err, "", its, ix)
        ELSE LET m == IF c.val.mapValue.nil THEN MkMap(EmptyMap) ELSE c.val.mapValue
             IN  Outcome(NoErr, "",
                         PutMap(c.items, key,
                                [c.val EXCEPT !.mapValue =
                                     [m EXCEPT !.kv = MapPut(@, mkey, value)]]),
                         c.index)

\* MapDelete refusing a map key that is not in the map
MapDeleteOfStrict(its, ix, key, mkey) ==
    LET c == checkkey(its, ix, key, "map", FALSE)
    IN  IF c.err # NoErr THEN Outcome(c.err, "", its, ix)
        ELSE IF mkey \notin DOMAIN c.val.mapValue.kv
        THEN Outcome(ErrMapKeyNotExist, "", its, ix)
        ELSE Outcome(NoErr, "",
                     Put(c.items, key,
                         [c.val EXCEPT !.mapValue =
                              MkMap(MapRemove(c.val.mapValue.kv, mkey))]),
                     c.index)

MapDeleteOf(its, ix, key, mkey) ==
    LET c == checkkey(its, ix, key, "map", FALSE)
    IN  IF c.err # NoErr THEN Outcome(c.err, "", its, ix)
        ELSE LET m == IF c.val.mapValue.nil THEN MkMap(EmptyMap) ELSE c.val.mapValue
             IN  Outcome(NoErr, "",
                         PutMap(c.items, key,
                                [c.val EXCEPT !.mapValue =
                                     [m EXCEPT !.kv = MapRemove(@, mkey)]]),
                         c.index)

(***************************************************************************)
(* The values the callers hand to Set.                                     *)
(***************************************************************************)
SeqsUpTo(S, n) == UNION {[1..m -> S] : m \in 0..n}
MapsOver(D, S) == UNION {[d -> S] : d \in SUBSET D}

\* elements of a []interface{} or map[string]interface{}
DynElems == {GoString("x"), GoInt("7")}

\* a value of a type Set has no case for
Unsupported == {GoInt("7")}

\* "values": every shape, nil and empty ones included, up to the bounds;
\* the other workloads: one value of each dynamic type
SetValuesOf(w) ==
    IF w # "values"
    THEN {GoString("x"), GoStrings(MkSlice(<<"x">>)), GoIfaces(MkSlice(<<GoString("x")>>)),
          GoMapSS(MkMap([m \in {"m"} |-> "x"]))}
         \cup Unsupported
    ELSE {GoString(v) : v \in ValuesOf(w)}
         \cup {GoStrings(NilSlice)}
         \cup {GoStrings(MkSlice(l)) : l \in SeqsUpTo(ValuesOf(w), MaxListLen)}
         \cup {GoMapSS(NilMap)}
         \cup {GoMapSS(MkMap(f)) : f \in MapsOver(MapKeysOf(w), ValuesOf(w))}
         \cup {GoIfaces(NilSlice)}
         \cup {GoIfaces(MkSlice(l)) : l \in SeqsUpTo(DynElems, MaxListLen)}
         \cup {GoMapSI(NilMap)}
         \cup {GoMapSI(MkMap(f)) : f \in MapsOver(MapKeysOf(w), DynElems)}
         \cup Unsupported

(***************************************************************************)
(* State.                                                                  *)
(***************************************************************************)
VARIABLES
    items,  \* Storage.items: key -> Item, defined on the keys present
    index,  \* Storage.index: the sorted slice of the keys
    ret,    \* the last call that returned: operation, arguments, results
    lastSet,  \* the last successful Set, while its key has not been written since
    callerMap,  \* the contents of the map object the caller holds
    got,    \* the slice the caller keeps from its last GetIndex
    workload, \* which inputs the callers draw from
    mutex,  \* Storage.RWMutex: the goroutine holding Lock, those holding RLock
    pc,     \* where each goroutine is in its call
    call,   \* the call each goroutine is in: operation and arguments
    loc,    \* the local variables of each goroutine's call
    seen,   \* for a goroutine in GetIndex: what its call returns on each
            \* content the index had since the call
    expect  \* "writers": the mapping the calls made so far add up to

seqvars == <<ret, lastSet, got, callerMap>>
procvars == <<mutex, pc, call, loc, seen, expect>>
vars == <<items, index, ret, lastSet, got, callerMap, workload, mutex, pc, call, loc, seen, expect>>

NoSet == [set |-> FALSE, key |-> <<>>, value |-> GoString("")]

\* the operations that take the exclusive lock
Mutators == {"Set", "Delete", "Append", "Pop", "MapSet", "MapDelete"}

\* lastSet after a call of op on key returned err
SetSeen(last, op, key, arg, err) ==
    IF op = "Set" /\ err = NoErr THEN [set |-> TRUE, key |-> key, value |-> arg]
    ELSE IF op \in Mutators /\ err = NoErr /\ last.set /\ last.key = key THEN NoSet
    ELSE last

\* the caller's map object holding f
CallerMap(f) == [nil |-> FALSE, kv |-> f, obj |-> "caller"]

\* what the caller's map object holds once the mapping is its: what an Item
\* referring to it shows, and f when there is none
CallerMapIn(its, f) ==
    LET at == {k \in DOMAIN its : its[k].mapValue.obj = "caller"}
    IN  IF at = {} THEN f ELSE its[CHOOSE k \in at : TRUE].mapValue.kv

\* no slice kept
NoGot == [kept |-> FALSE, val |-> <<>>, live |-> FALSE, now |-> <<>>]

\* the slice r that GetIndex returned: val is what it held then; live says
\* that it shares the array of s.index; now is what it holds since it does
\* no longer
GotOf(r) ==
    IF r.err # NoErr THEN NoGot
    ELSE [kept |-> TRUE, val |-> r.val, live |-> r.alias, now |-> r.val]

\* what the kept slice h holds while s.index is ix
GotNow(h, ix) == IF h.live THEN SubSeq(ix.array, 1, Len(h.val)) ELSE h.now

\* the kept slice h after s.index changed from ix to ix2: a slice on the
\* array of ix keeps the array when ix2 has a new one
GotAfter(h, ix, ix2) ==
    IF h.live /\ Cap(ix2) # Cap(ix)
    THEN [h EXCEPT !.live = FALSE, !.now = GotNow(h, ix)]
    ELSE h

\* the Type of the Item at key, "absent" when there is none
TypeAt(its, key) == IF key \in DOMAIN its THEN its[key].Type ELSE "absent"

\* prev is the Type of the Item at key when the call was made
Returned(op, key, mkey, arg, prev, r) ==
    [op |-> op, key |-> key, mkey |-> mkey, arg |-> arg, prev |-> prev,
     err |-> r.err, val |-> r.val]

\* sync.RWMutex, unlocked
Unlocked == [writer |-> "none", readers |-> {}]

NoCall == [op |-> "none", key |-> <<>>, mkey |-> "", arg |-> GoString("")]

\* what a call returns, the value under the name of its Go type: the JSON
\* of Get, the []string of GetIndex, the string of the others (empty for
\* those that return an error only)
Res(op, e, v) ==
    [err |-> e,
     val |-> <<CASE op = "Get" -> "[]byte"
                 [] op = "GetIndex" -> "[]string"
                 [] OTHER -> "string", v>>]

NoRes == Res("none", NoErr, "")

\* the locals of a call, zeroed
NoLoc ==
    [res |-> NoRes,                       \* the error and value to return
     snap |-> [items |-> <<>>, index |-> EmptyIndex],  \* the store when Lock returned
     newIndex |-> EmptyIndex,             \* updateIndex: the slice to store in s.index
     write |-> "none",                    \* the write to s.items still to do
     item |-> NewItem(""),                \* the Item to write
     idx |-> 0,                           \* GetIndex: index, the result of Search
     hdr |-> [cap |-> 0, len |-> 0],      \* GetIndex: the slice header of the range loop
     live |-> TRUE,                       \* whether that slice's array is still s.index's
     arr |-> <<>>,                        \* the array, once it is no longer s.index's
     j |-> 0]                             \* range loop: the next element

\* New(), and no call made yet
InitAs(w) ==
    /\ workload = w
    /\ items = [k \in {} |-> NewItem("")]
    /\ index = EmptyIndex
    /\ ret = [op |-> "New", key |-> <<>>, mkey |-> "", arg |-> "", prev |-> "absent",
              err |-> NoErr, val |-> ""]
    /\ lastSet = NoSet
    /\ got = NoGot
    /\ callerMap = EmptyMap
    /\ mutex = Unlocked
    /\ pc = [p \in ProcsOf(w) |-> "idle"]
    /\ call = [p \in ProcsOf(w) |-> NoCall]
    /\ loc = [p \in ProcsOf(w) |-> NoLoc]
    /\ seen = [p \in ProcsOf(w) |-> {}]
    /\ expect = [k \in {} |-> NewItem("")]

Init == \E w \in Workloads : InitAs(w)

\* the operation ran from Lock to Unlock with outcome r
Apply(op, key, mkey, arg, r) ==
    /\ items' = r.items
    /\ index' = r.index
    /\ ret' = Returned(op, key, mkey, arg, TypeAt(items, key), r)
    /\ lastSet' = SetSeen(lastSet, op, key, arg, r.err)
    /\ got' = IF workload = "kept" THEN GotAfter(got, index, r.index) ELSE got
    /\ callerMap' = CallerMapIn(r.items, callerMap)
    /\ UNCHANGED <<workload, procvars>>

Get(key) == Apply("Get", key, "", "", GetOf(items, index, key))

Set(key, value) == Apply("Set", key, "", value, SetOf(items, index, key, value))

Delete(key) == Apply("Delete", key, "", "", DeleteOf(items, index, key))

\* the guard bounds the list's length
AppendOp(key, value) ==
    /\ Has(items, key) => Len(items[key].listValue.elems) < MaxListLen
    /\ Apply("Append", key, "", value, AppendOf(items, index, key, value))

Pop(key) == Apply("Pop", key, "", "", PopOf(items, index, key))

MapGet(key, mkey) == Apply("MapGet", key, mkey, "", MapGetOf(items, index, key, mkey))

MapSet(key, mkey, value) ==
    Apply("MapSet", key, mkey, value, MapSetOf(items, index, key, mkey, value))

MapDelete(key, mkey) ==
    Apply("MapDelete", key, mkey, "", MapDeleteOf(items, index, key, mkey))

GetIndex(search) ==
    LET r == GetIndexOf(index, search)
    IN  /\ ret' = Returned("GetIndex", search, "", "", TypeAt(items, search), r)
        /\ got' = IF workload = "kept" THEN GotOf(r) ELSE got
        /\ UNCHANGED <<items, index, lastSet, callerMap, workload, procvars>>

Next ==
    \/ \E k \in KeysOf(workload) : Get(k)
    \/ \E k \in KeysOf(workload), v \in SetValuesOf(workload) : Set(k, v)
    \/ \E k \in KeysOf(workload) : Delete(k)
    \/ \E k \in KeysOf(workload), v \in ValuesOf(workload) : AppendOp(k, v)
    \/ \E k \in KeysOf(workload) : Pop(k)
    \/ \E k \in KeysOf(workload), mk \in MapKeysOf(workload) : MapGet(k, mk)
    \/ \E k \in KeysOf(workload), mk \in MapKeysOf(workload), v \in ValuesOf(workload) :
          MapSet(k, mk, v)
    \/ \E k \in KeysOf(workload), mk \in MapKeysOf(workload) : MapDelete(k, mk)
    \/ \E s \in PatternsOf(workload) : GetIndex(s)

Spec == Init /\ [][Next]_vars

\* Set(key, m) with m the caller's own map
SetCallerMap(key) == Set(key, GoMapSS(CallerMap(callerMap)))

\* the caller of "shared": the operations, and Set with its own map
NextShared ==
    \/ \E k \in KeysOf(workload) : Get(k)
    \/ \E k \in KeysOf(workload), v \in SetValuesOf(workload) : Set(k, v)
    \/ \E k \in KeysOf(workload) : SetCallerMap(k)
    \/ \E k \in KeysOf(workload) : Delete(k)
    \/ \E k \in KeysOf(workload), v \in ValuesOf(workload) : AppendOp(k, v)
    \/ \E k \in KeysOf(workload) : Pop(k)
    \/ \E k \in KeysOf(workload), mk \in MapKeysOf(workload) : MapGet(k, mk)
    \/ \E k \in KeysOf(workload), mk \in MapKeysOf(workload), v \in ValuesOf(workload) :
          MapSet(k, mk, v)
    \/ \E k \in KeysOf(workload), mk \in MapKeysOf(workload) : MapDelete(k, mk)
    \/ \E s \in PatternsOf(workload) : GetIndex(s)

InitShared == InitAs("shared")

SpecShared == InitShared /\ [][NextShared]_vars

(***************************************************************************)
(* Concurrent callers.  A goroutine's call is a sequence of steps: taking  *)
(* the lock, the stores to s.index and s.items, releasing the lock.  What  *)
(* a mutator reads it reads when Lock returns, and what it stores is       *)
(* computed from that; the arguments of a call waiting for the lock play   *)
(* no part until it has the lock, and are chosen then.  GetIndex takes no  *)
(* lock: each of its reads of s.index (a slice header, Search, one         *)
(* element) is a step of its own.                                          *)
(***************************************************************************)
\* s.Lock(): whether it returns now, and the mutex when it has
LockOfNoWait(m, p) == [ok |-> TRUE, m |-> [m EXCEPT !.writer = p]]

LockOfAsRLock(m, p) ==
    [ok |-> m.writer = "none", m |-> [m EXCEPT !.readers = @ \cup {p}]]

LockOf(m, p) ==
    [ok |-> m.writer = "none" /\ m.readers = {}, m |-> [m EXCEPT !.writer = p]]

\* a return that leaves the lock locked
UnlockOfHeld(m, p) == m

\* s.Unlock()
UnlockOf(m, p) == [m EXCEPT !.writer = "none"]

\* s.RLock()
RLockOf(m, p) == [ok |-> m.writer = "none", m |-> [m EXCEPT !.readers = @ \cup {p}]]

\* s.RUnlock()
RUnlockOf(m, p) == [m EXCEPT !.readers = @ \ {p}]

Call(op, key, mkey, arg) == [op |-> op, key |-> key, mkey |-> mkey, arg |-> arg]

\* the calls that take the exclusive lock; a writer of "writers" calls Set
\* and Append on its own key
MutatorCalls(w, p) ==
    IF w = "writers"
    THEN {Call("Set", KeyOf(p), "", v) : v \in SetValuesOf(w)}
         \cup {Call("Append", KeyOf(p), "", GoString(v)) : v \in ValuesOf(w)}
    ELSE {Call("Set", k, "", v) : k \in KeysOf(w), v \in SetValuesOf(w)}
         \cup {Call("Delete", k, "", GoString("")) : k \in KeysOf(w)}
         \cup {Call("Append", k, "", GoString(v)) : k \in KeysOf(w), v \in ValuesOf(w)}
         \cup {Call("Pop", k, "", GoString("")) : k \in KeysOf(w)}
         \cup {Call("MapSet", k, mk, GoString(v)) :
                   k \in KeysOf(w), mk \in MapKeysOf(w), v \in ValuesOf(w)}
         \cup {Call("MapDelete", k, mk, GoString("")) : k \in KeysOf(w), mk \in MapKeysOf(w)}

\* the calls that take the shared lock
ReaderCalls(w) ==
    {Call("Get", k, "", GoString("")) : k \in KeysOf(w)}
    \cup {Call("MapGet", k, mk, GoString("")) : k \in KeysOf(w), mk \in MapKeysOf(w)}

\* the call c run on the store (its, ix) from lock to unlock
Run(its, ix, c) ==
    CASE c.op = "Set" -> SetOf(its, ix, c.key, c.arg)
      [] c.op = "Delete" -> DeleteOf(its, ix, c.key)
      [] c.op = "Append" -> AppendOf(its, ix, c.key, c.arg[2])
      [] c.op = "Pop" -> PopOf(its, ix, c.key)
      [] c.op = "MapSet" -> MapSetOf(its, ix, c.key, c.mkey, c.arg[2])
      [] c.op = "MapDelete" -> MapDeleteOf(its, ix, c.key, c.mkey)
      [] c.op = "Get" -> GetOf(its, ix, c.key)
      [] c.op = "MapGet" -> MapGetOf(its, ix, c.key, c.mkey)

\* a goroutine calls a mutator, whose first statement is s.Lock()
CallMutator(p) ==
    /\ pc[p] = "idle"
    /\ pc' = [pc EXCEPT ![p] = "lock"]
    /\ UNCHANGED <<items, index, seqvars, workload, mutex, call, loc, seen, expect>>

\* a goroutine calls Get or MapGet, whose first statement is s.RLock()
CallReader(p) ==
    /\ pc[p] = "idle"
    /\ pc' = [pc EXCEPT ![p] = "rlock"]
    /\ UNCHANGED <<items, index, seqvars, workload, mutex, call, loc, seen, expect>>

\* s.Lock() returns, and the mutator c runs up to its store to s.index
\* (the guard bounds the length of the lists)
Lock(p, c) ==
    /\ pc[p] = "lock"
    /\ LockOf(mutex, p).ok
    /\ (c.op = "Append" /\ Has(items, c.key))
          => Len(items[c.key].listValue.elems) < MaxListLen
    /\ LET r == Run(items, index, c)
       IN  /\ loc' = [loc EXCEPT ![p] =
                        [NoLoc EXCEPT
                           !.res = Res(c.op, r.err, r.val),
                           !.snap = [items |-> items, index |-> index],
                           !.newIndex = r.index,
                           !.write = IF c.op = "Delete" THEN "delete"
                                     ELSE IF r.err = NoErr THEN "put" ELSE "none",
                           !.item = IF c.op # "Delete" /\ r.err = NoErr
                                    THEN r.items[c.key] ELSE NewItem("")]]
           /\ pc' = [pc EXCEPT ![p] = IF r.index # index THEN "index" ELSE "unlock"]
           /\ expect' = IF workload = "writers" THEN Run(expect, index, c).items ELSE expect
    /\ mutex' = LockOf(mutex, p).m
    /\ call' = [call EXCEPT ![p] = c]
    /\ UNCHANGED <<items, index, seqvars, workload, seen>>

\* pcs of a mutator between the return of s.Lock() and its s.Unlock()
InMutation == {"index", "unlock"}

\* what GetIndex(search) returns on the slice ix
ResultOn(ix, search) ==
    LET r == GetIndexOf(ix, search) IN Res("GetIndex", r.err, r.val)

\* pcs of a goroutine inside GetIndex
InGetIndex == {"gi_cmp", "gi_build", "gi_elem", "gi_ret"}

\* updateIndex stores the slice it built in s.index.  A goroutine ranging
\* over the old slice keeps the old array when the new one is freshly
\* allocated, and sees the writes when it is the same array.
IndexStore(p) ==
    /\ pc[p] = "index"
    /\ index' = loc[p].newIndex
    /\ pc' = [pc EXCEPT ![p] = "unlock"]
    /\ loc' = [q \in DOMAIN loc |->
                 IF q # p /\ pc[q] = "gi_elem" /\ loc[q].live
                    /\ Cap(loc[p].newIndex) # Cap(index)
                 THEN [loc[q] EXCEPT !.live = FALSE, !.arr = index.array]
                 ELSE loc[q]]
    /\ seen' = [q \in DOMAIN seen |->
                  IF pc[q] \in InGetIndex
                  THEN seen[q] \cup {ResultOn(loc[p].newIndex, call[q].key)}
                  ELSE seen[q]]
    /\ UNCHANGED <<items, seqvars, workload, mutex, call, expect>>

\* the mutator's write to s.items, the deferred s.Unlock(), and the return
\* of loc[p].res
Unlock(p) ==
    /\ pc[p] = "unlock"
    /\ items' = CASE loc[p].write = "put" -> Put(items, call[p].key, loc[p].item)
                  [] loc[p].write = "delete" -> Remove(items, call[p].key)
                  [] OTHER -> items
    /\ mutex' = UnlockOf(mutex, p)
    /\ pc' = [pc EXCEPT ![p] = "idle"]
    /\ call' = [call EXCEPT ![p] = NoCall]
    /\ loc' = [loc EXCEPT ![p] = NoLoc]
    /\ UNCHANGED <<index, seqvars, workload, seen, expect>>

\* s.RLock() returns and Get or MapGet runs its body
RLock(p, c) ==
    /\ pc[p] = "rlock"
    /\ RLockOf(mutex, p).ok
    /\ LET r == Run(items, index, c)
       IN  /\ loc' = [loc EXCEPT ![p] = [NoLoc EXCEPT !.res = Res(c.op, r.err, r.val)]]
           /\ items' = r.items
           /\ index' = r.index
    /\ mutex' = RLockOf(mutex, p).m
    /\ pc' = [pc EXCEPT ![p] = "runlock"]
    /\ call' = [call EXCEPT ![p] = c]
    /\ UNCHANGED <<seqvars, workload, seen, expect>>

\* the deferred s.RUnlock(), and the return of loc[p].res
RUnlock(p) ==
    /\ pc[p] = "runlock"
    /\ mutex' = RUnlockOf(mutex, p)
    /\ pc' = [pc EXCEPT ![p] = "idle"]
    /\ call' = [call EXCEPT ![p] = NoCall]
    /\ loc' = [loc EXCEPT ![p] = NoLoc]
    /\ UNCHANGED <<items, index, seqvars, workload, seen, expect>>

\* GetIndex(search) up to and with its first read of s.index: the slice
\* returned for "*", the Search of an exact pattern, the slice header the
\* range loop of a glob runs over
GetIndexCall(p, search) ==
    /\ pc[p] = "idle"
    /\ call' = [call EXCEPT ![p] = Call("GetIndex", search, "", GoString(""))]
    /\ seen' = [seen EXCEPT ![p] = {ResultOn(index, search)}]
    /\ LET l == NoLoc
       IN  IF search = <<"*">>
           THEN /\ loc' = [loc EXCEPT ![p] =
                             [l EXCEPT !.res = Res("GetIndex", NoErr, Elems(index))]]
                /\ pc' = [pc EXCEPT ![p] = "gi_ret"]
           ELSE IF Len(SplitGlob(search)) = 1
           THEN /\ loc' = [loc EXCEPT ![p] =
                             [l EXCEPT !.idx = Search(Elems(index), search)]]
                /\ pc' = [pc EXCEPT ![p] = "gi_cmp"]
           ELSE /\ loc' = [loc EXCEPT ![p] =
                             [l EXCEPT !.hdr = [cap |-> Cap(index), len |-> index.len],
                                       !.res = Res("GetIndex", NoErr, <<>>)]]
                /\ pc' = [pc EXCEPT ![p] = IF index.len = 0 THEN "gi_ret" ELSE "gi_elem"]
    /\ UNCHANGED <<items, index, seqvars, workload, mutex, expect>>

\* if s.index[index] != search { return make([]string, 0) }
GetIndexCompare(p) ==
    /\ pc[p] = "gi_cmp"
    /\ LET l == loc[p]
           i == loc[p].idx
       IN  IF i >= index.len
           THEN /\ loc' = [loc EXCEPT ![p] =
                             [l EXCEPT !.res = Res("GetIndex", PanicIndexOutOfRange, <<>>)]]
                /\ pc' = [pc EXCEPT ![p] = "gi_ret"]
           ELSE IF index.array[i + 1] # call[p].key
           THEN /\ loc' = [loc EXCEPT ![p] = [l EXCEPT !.res = Res("GetIndex", NoErr, <<>>)]]
                /\ pc' = [pc EXCEPT ![p] = "gi_ret"]
           ELSE /\ loc' = [loc EXCEPT ![p] = l]
                /\ pc' = [pc EXCEPT ![p] = "gi_build"]
    /\ UNCHANGED <<items, index, seqvars, workload, mutex, call, seen, expect>>

\* return []string{s.index[index]}
GetIndexBuild(p) ==
    /\ pc[p] = "gi_build"
    /\ LET l == loc[p]
           i == loc[p].idx
       IN  loc' = [loc EXCEPT ![p] =
                     [l EXCEPT !.res =
                         IF i >= index.len
                         THEN Res("GetIndex", PanicIndexOutOfRange, <<>>)
                         ELSE Res("GetIndex", NoErr, <<index.array[i + 1]>>)]]
    /\ pc' = [pc EXCEPT ![p] = "gi_ret"]
    /\ UNCHANGED <<items, index, seqvars, workload, mutex, call, seen, expect>>

\* one turn of the range loop: the element is read from the array the
\* loop's slice header points to
GetIndexElem(p) ==
    /\ pc[p] = "gi_elem"
    /\ LET l == loc[p]
           val == IF l.live THEN index.array[l.j + 1] ELSE l.arr[l.j + 1]
           acc == IF Glob(call[p].key, val) THEN Append(l.res.val[2], val)
                  ELSE l.res.val[2]
       IN  /\ loc' = [loc EXCEPT ![p] =
                        [l EXCEPT !.j = @ + 1,
                                  !.res = Res("GetIndex", NoErr, acc)]]
           /\ pc' = [pc EXCEPT ![p] = IF l.j + 1 = l.hdr.len THEN "gi_ret" ELSE "gi_elem"]
    /\ UNCHANGED <<items, index, seqvars, workload, mutex, call, seen, expect>>

\* GetIndex returns loc[p].res
GetIndexReturn(p) ==
    /\ pc[p] = "gi_ret"
    /\ pc' = [pc EXCEPT ![p] = "idle"]
    /\ call' = [call EXCEPT ![p] = NoCall]
    /\ loc' = [loc EXCEPT ![p] = NoLoc]
    /\ seen' = [seen EXCEPT ![p] = {}]
    /\ UNCHANGED <<items, index, seqvars, workload, mutex, expect>>

NextConc ==
    \/ \E p \in ProcsOf(workload) : CallMutator(p)
    \/ \E p \in ProcsOf(workload) : CallReader(p)
    \/ \E p \in ProcsOf(workload) : \E c \in MutatorCalls(workload, p) : Lock(p, c)
    \/ \E p \in ProcsOf(workload) : IndexStore(p)
    \/ \E p \in ProcsOf(workload) : Unlock(p)
    \/ \E p \in ProcsOf(workload), c \in ReaderCalls(workload) : RLock(p, c)
    \/ \E p \in ProcsOf(workload) : RUnlock(p)
    \/ \E p \in ProcsOf(workload), s \in PatternsOf(workload) : GetIndexCall(p, s)
    \/ \E p \in ProcsOf(workload) : GetIndexCompare(p)
    \/ \E p \in ProcsOf(workload) : GetIndexBuild(p)
    \/ \E p \in ProcsOf(workload) : GetIndexElem(p)
    \/ \E p \in ProcsOf(workload) : GetIndexReturn(p)

InitConc == InitAs("conc")

SpecConc == InitConc /\ [][NextConc]_vars

\* The goroutines of "live", scheduled fairly: a goroutine that can take a
\* step of its call takes it in the end, and one waiting in s.Lock() or
\* s.RLock() gets the lock in the end if it is free again and again
\* (sync.RWMutex starves neither readers nor writers).  No goroutine has to
\* make a call.
InitLive == InitAs("live")

Fairness ==
    \A p \in ProcsOf("live") :
        /\ SF_vars(\E c \in MutatorCalls("live", p) : Lock(p, c))
        /\ SF_vars(\E c \in ReaderCalls("live") : RLock(p, c))
        /\ WF_vars(IndexStore(p))
        /\ WF_vars(Unlock(p))
        /\ WF_vars(RUnlock(p))
        /\ WF_vars(GetIndexCompare(p) \/ GetIndexBuild(p) \/ GetIndexElem(p)
                      \/ GetIndexReturn(p))

SpecLive == InitLive /\ [][NextConc]_vars /\ Fairness

NextWriters ==
    \/ \E p \in ProcsOf(workload) : CallMutator(p)
    \/ \E p \in ProcsOf(workload) : \E c \in MutatorCalls(workload, p) : Lock(p, c)
    \/ \E p \in ProcsOf(workload) : IndexStore(p)
    \/ \E p \in ProcsOf(workload) : Unlock(p)

InitWriters == InitAs("writers")

SpecWriters == InitWriters /\ [][NextWriters]_vars

(***************************************************************************)
(* Properties.                                                             *)
(***************************************************************************)
\* a is strictly ascending
Sorted(a) == \A n \in 1..(Len(a) - 1) : StrLess(a[n], a[n + 1])

Range(a) == {a[n] : n \in 1..Len(a)}

\* a without its entries equal to k, in order
RECURSIVE Without(_, _)
Without(a, k) ==
    IF a = <<>> THEN <<>>
    ELSE (IF Head(a) = k THEN <<>> ELSE <<Head(a)>>) \o Without(Tail(a), k)

\* C1: after every operation the index holds exactly the keys of the
\* mapping, strictly ascending (so without duplicates).
IndexInvariant ==
    /\ Sorted(Elems(index))
    /\ Range(Elems(index)) = DOMAIN items

\* C1's case: a Delete has shifted a grown index
IndexInvariantWitness ==
    /\ ret.op = "Delete"
    /\ ret.prev # "absent"
    /\ index.len = 2
    /\ Cap(index) = 4

\* C2: an Append or Pop on a key holding a non-list, and a MapSet, MapGet
\* or MapDelete on a key holding a non-map, returns the type-mismatch
\* error and changes neither the mapping nor the index.
TypeGuard ==
    [][ LET op == ret'.op
            held == TypeAt(items, ret'.key)
        IN  (\/ op \in {"Append", "Pop"} /\ held \notin {"absent", "list"}
             \/ op \in {"MapSet", "MapGet", "MapDelete"} /\ held \notin {"absent", "map"})
            => /\ ret'.err = ErrTypeMismatch
               /\ items' = items
               /\ index' = index ]_vars

\* C2's case: a MapSet was refused on a key that holds a list
TypeGuardWitness ==
    /\ ret.op = "MapSet"
    /\ ret.err = ErrTypeMismatch
    /\ ret.prev = "list"
    /\ items[ret.key].Type = "list"

\* C3: on an absent key Append and MapSet succeed and leave the key, as a
\* list resp. map holding just the written element, in the mapping and the
\* index; Pop, MapGet and MapDelete fail with the key-not-found error and
\* change nothing.
AutoVivification ==
    [][ LET op == ret'.op
            key == ret'.key
            added == /\ ret'.err = NoErr
                     /\ Range(Elems(index')) = Range(Elems(index)) \cup {key}
                     /\ DOMAIN items' = (DOMAIN items) \cup {key}
                     /\ \A k \in DOMAIN items : items'[k] = items[k]
        IN  ~Has(items, key)
            => /\ op = "Append"
                  => /\ added
                     /\ items'[key] =
                          [NewItem("list") EXCEPT !.listValue = MkSlice(<<ret'.arg>>)]
               /\ op = "MapSet"
                  => /\ added
                     /\ items'[key] =
                          [NewItem("map") EXCEPT
                              !.mapValue = MkMap([m \in {ret'.mkey} |-> ret'.arg])]
               /\ op \in {"Pop", "MapGet", "MapDelete"}
                  => /\ ret'.err = ErrKeyNotExist
                     /\ items' = items
                     /\ index' = index ]_vars

\* C3's case: an Append created a key between two others
AutoVivificationWitness ==
    /\ ret.op = "Append"
    /\ ret.prev = "absent"
    /\ ret.err = NoErr
    /\ index.len = 3
    /\ Elems(index)[2] = ret.key

\* true of the values whose elements are Go strings and, for a
\* []interface{} or map[string]interface{}, whose container is not nil
StringsOnly(value) ==
    LET t == value[1]
        v == value[2]
    IN  CASE t \in {"string", "[]string", "map[string]string"} -> TRUE
          [] t = "[]interface{}" ->
               ~v.nil /\ \A n \in 1..Len(v.elems) : v.elems[n][1] = "string"
          [] t = "map[string]interface{}" ->
               ~v.nil /\ \A k \in DOMAIN v.kv : v.kv[k][1] = "string"
          [] OTHER -> FALSE

\* C4 as stated: a Get of a key last written by a successful Set(k, v)
\* returns the serialization of v.
RoundTripAnyValue ==
    (ret.op = "Get" /\ lastSet.set /\ lastSet.key = ret.key)
    => /\ ret.err = NoErr
       /\ ret.val = Marshal(lastSet.value)

\* C4 amended: the same for a v that is a string, a []string, a
\* map[string]string, or a non-nil []interface{} or map[string]interface{}
\* whose elements are all strings.
RoundTrip ==
    (ret.op = "Get" /\ lastSet.set /\ lastSet.key = ret.key /\ StringsOnly(lastSet.value))
    => /\ ret.err = NoErr
       /\ ret.val = Marshal(lastSet.value)

\* C4's case: a Get after a Set of a two-element []interface{} of strings
RoundTripWitness ==
    /\ ret.op = "Get"
    /\ lastSet.set
    /\ lastSet.key = ret.key
    /\ lastSet.value[1] = "[]interface{}"
    /\ StringsOnly(lastSet.value)
    /\ Len(lastSet.value[2].elems) = 2

NoWildcard(search) == \A n \in 1..Len(search) : search[n] # "*"

\* C5: GetIndex of a pattern without "*" does not fail and returns the
\* pattern alone when it is a key of the index, nothing otherwise.
GetIndexExactNeverFails ==
    (ret.op = "GetIndex" /\ NoWildcard(ret.key))
    => /\ ret.err = NoErr
       /\ ret.val = IF ret.key \in Range(Elems(index)) THEN <<ret.key>> ELSE <<>>

\* C6: while a goroutine is inside GetIndex no mutator holds the exclusive
\* lock, and what GetIndex returns is what the pattern selects from one of
\* the contents the index had between the call and the return.
GetIndexSnapshot ==
    \A p \in DOMAIN pc :
        /\ pc[p] \in InGetIndex => mutex.writer = "none"
        /\ pc[p] = "gi_ret" => loc[p].res \in seen[p]

\* C7: when the writers, each on a key of its own, have all returned, the
\* mapping holds for every key the outcome of its writer's Set and Append
\* calls, each applied once and in the writer's order, and the index holds
\* exactly the keys of the mapping, ascending, each once.
DisjointWriters ==
    (workload = "writers" /\ \A p \in DOMAIN pc : pc[p] = "idle")
    => /\ items = expect
       /\ index.len = Cardinality(DOMAIN items)
       /\ Range(Elems(index)) = DOMAIN items
       /\ Sorted(Elems(index))

\* all three writers have returned, each has written its key, and a list
\* holds two appended elements
DisjointWritersWitness ==
    /\ workload = "writers"
    /\ \A p \in DOMAIN pc : pc[p] = "idle" /\ Has(items, KeyOf(p))
    /\ \E k \in DOMAIN items :
          items[k].Type = "list" /\ Len(items[k].listValue.elems) = 2

\* C8: the mutators run one at a time.  s.Lock() returns to a mutator only
\* while no other is between its Lock and its Unlock; the mapping and the
\* index change only by the steps of the mutator holding the lock; and when
\* it returns, the mapping, the index and its result are those of running
\* its call alone on the store it found when Lock returned.
Serialized ==
    [][\A p \in DOMAIN pc :
          /\ (pc[p] = "lock" /\ pc'[p] \in InMutation)
                => /\ \A q \in DOMAIN pc \ {p} : pc[q] \notin InMutation
                   /\ items' = items /\ index' = index
          /\ (pc[p] \notin InMutation /\ pc'[p] = pc[p])
                => \/ items' = items /\ index' = index
                   \/ \E q \in DOMAIN pc \ {p} : pc[q] \in InMutation
          /\ (pc[p] \in InMutation /\ pc'[p] = "idle")
                => LET r == Run(loc[p].snap.items, loc[p].snap.index, call[p])
                   IN  /\ items' = r.items
                       /\ index' = r.index
                       /\ loc[p].res = Res(call[p].op, r.err, r.val) ]_vars

\* a goroutine holds the lock for an Append that makes the list at a key two
\* long, and is about to store it, while the other goroutine waits in
\* s.Lock() with a mutation of its own
SerializedWitness ==
    \E p, q \in DOMAIN pc :
        /\ p # q
        /\ pc[p] = "unlock" /\ call[p].op = "Append"
        /\ loc[p].write = "put" /\ Len(loc[p].item.listValue.elems) = 2
        /\ pc[q] = "lock"

\* the dynamic types Set has a case for
IsStringListOrMap(value) ==
    value[1] \in {"string", "[]string", "map[string]string",
                  "[]interface{}", "map[string]interface{}"}

\* C9: Set of a value that is no string, list or map returns the
\* unknown-type error and changes neither the mapping nor the index.
UnsupportedRejected ==
    [][ (ret'.op = "Set" /\ ~IsStringListOrMap(ret'.arg))
        => /\ ret'.err = ErrUnknownType
           /\ items' = items
           /\ index' = index ]_vars

\* C9's case: Set of an integer on a key that holds a map
UnsupportedRejectedWitness ==
    /\ ret.op = "Set"
    /\ ret.arg = GoInt("7")
    /\ ret.err = ErrUnknownType
    /\ ret.prev = "map"
    /\ items[ret.key].Type = "map"

\* the Item's payloads other than the one its Type names are zero
OnlyTaggedPayload(i) ==
    /\ i.Type \in {"string", "list", "map"}
    /\ i.Type # "string" => i.stringValue = ""
    /\ i.Type # "list" => i.listValue = NilSlice
    /\ i.Type # "map" => i.mapValue = NilMap

\* C10: after a successful Set(k, v) the Item at k is the one v alone
\* determines, with nothing left of the Item it replaces; k is in the
\* index once and the other index entries are as before.
SetReplaces ==
    [][ (ret'.op = "Set" /\ ret'.err = NoErr)
        => LET k == ret'.key
           IN  /\ Has(items', k)
               /\ items'[k] = SetItem(ret'.arg).item
               /\ OnlyTaggedPayload(items'[k])
               /\ Cardinality({n \in 1..index'.len : index'.array[n] = k}) = 1
               /\ Without(Elems(index'), k) = Without(Elems(index), k) ]_vars

\* C10's case: a Set replaced a list by a string, other keys around it
SetReplacesWitness ==
    /\ ret.op = "Set"
    /\ ret.err = NoErr
    /\ ret.prev = "list"
    /\ items[ret.key].Type = "string"
    /\ index.len = 3
    /\ Elems(index)[2] = ret.key

\* the mappings agree on every key but key
SameElsewhere(its1, its2, key) ==
    /\ (DOMAIN its1) \ {key} = (DOMAIN its2) \ {key}
    /\ \A k \in (DOMAIN its1) \ {key} : its1[k] = its2[k]

\* C11: Delete returns no error; of a present key it removes the key, and
\* nothing else, from the mapping and the index; of an absent key it
\* changes nothing; and a second Delete of the key changes nothing more.
DeleteRemoves ==
    [][ ret'.op = "Delete"
        => LET key == ret'.key
               again == DeleteOf(items', index', key)
           IN  /\ ret'.err = NoErr
               /\ ~Has(items', key)
               /\ SameElsewhere(items, items', key)
               /\ Elems(index') = Without(Elems(index), key)
               /\ ~Has(items, key) => (items' = items /\ index' = index)
               /\ again.items = items'
               /\ again.index = index' ]_vars

\* C11's case: the middle one of three keys was deleted
DeleteRemovesWitness ==
    /\ ret.op = "Delete"
    /\ ret.prev # "absent"
    /\ ret.key = <<"a", "b">>
    /\ Elems(index) = << <<"a">>, <<"b">> >>
    /\ DOMAIN items = {<<"a">>, <<"b">>}

\* the elements of the list at key, none when the key is absent
ListAt(its, key) == IF Has(its, key) THEN its[key].listValue.elems ELSE <<>>

\* C12: Pop of a list of n >= 1 elements returns the last and leaves the
\* first n - 1; of an absent key, a key holding no list, or an empty list
\* it returns the error of the case and changes nothing; and a Pop right
\* after a successful Append to the key returns the appended value.
PopTakesLast ==
    [][ ret'.op = "Pop"
        => LET key == ret'.key
               held == TypeAt(items, key)
               l == ListAt(items, key)
               unchanged == items' = items /\ index' = index
           IN  /\ held = "absent" => (ret'.err = ErrKeyNotExist /\ unchanged)
               /\ held \notin {"absent", "list"}
                     => (ret'.err = ErrTypeMismatch /\ unchanged)
               /\ (held = "list" /\ Len(l) = 0) => (ret'.err = ErrListEmpty /\ unchanged)
               /\ (held = "list" /\ Len(l) >= 1)
                     => /\ ret'.err = NoErr
                        /\ ret'.val = l[Len(l)]
                        /\ items'[key].Type = "list"
                        /\ ListAt(items', key) = SubSeq(l, 1, Len(l) - 1)
                        /\ SameElsewhere(items, items', key)
                        /\ index' = index
               /\ (ret.op = "Append" /\ ret.err = NoErr /\ ret.key = key)
                     => (ret'.err = NoErr /\ ret'.val = ret.arg) ]_vars

\* C12's case: a Pop took "y" off a list of "x" and "y"
PopTakesLastWitness ==
    /\ ret.op = "Pop"
    /\ ret.err = NoErr
    /\ ret.val = "y"
    /\ ListAt(items, ret.key) = <<"x">>

\* C13: a successful Append leaves at the key the list it found (none when
\* the key was absent) with the value added at the end, and changes no
\* other key.
AppendAddsLast ==
    [][ (ret'.op = "Append" /\ ret'.err = NoErr)
        => LET key == ret'.key
           IN  /\ Has(items', key)
               /\ items'[key].Type = "list"
               /\ ListAt(items', key) = Append(ListAt(items, key), ret'.arg)
               /\ SameElsewhere(items, items', key) ]_vars

\* C13's case: an Append added "y" to a list holding "x"
AppendAddsLastWitness ==
    /\ ret.op = "Append"
    /\ ret.err = NoErr
    /\ ret.prev = "list"
    /\ ListAt(items, ret.key) = <<"x", "y">>

\* the entries of the map at key, none when the key is absent
MapAt(its, key) == IF Has(its, key) THEN its[key].mapValue.kv ELSE EmptyMap

\* C14: a successful MapSet leaves at the key the map it found with the
\* one entry written, and a MapGet of that entry then returns the value;
\* a MapGet on a key holding a map returns the entry's value, or the
\* missing-map-key error when the map, uninitialized or not, lacks it.
MapSetThenGet ==
    [][ LET op == ret'.op
            key == ret'.key
            mkey == ret'.mkey
            m == MapAt(items, key)
        IN  /\ (op = "MapSet" /\ ret'.err = NoErr)
                  => /\ Has(items', key)
                     /\ items'[key].Type = "map"
                     /\ MapAt(items', key) = MapPut(m, mkey, ret'.arg)
                     /\ SameElsewhere(items, items', key)
                     /\ LET g == MapGetOf(items', index', key, mkey)
                        IN  g.err = NoErr /\ g.val = ret'.arg
            /\ (op = "MapGet" /\ TypeAt(items, key) = "map")
                  => IF mkey \in DOMAIN m
                     THEN ret'.err = NoErr /\ ret'.val = m[mkey]
                     ELSE ret'.err = ErrMapKeyNotExist
            /\ (op = "MapGet" /\ ret.op = "MapSet" /\ ret.err = NoErr
                  /\ ret.key = key /\ ret.mkey = mkey)
                  => (ret'.err = NoErr /\ ret'.val = ret.arg) ]_vars

\* C14's case: a MapGet returned the entry written second, beside the first
MapSetThenGetWitness ==
    /\ ret.op = "MapGet"
    /\ ret.err = NoErr
    /\ ret.mkey = "n"
    /\ ret.val = "y"
    /\ MapAt(items, ret.key) = MapPut(MapPut(EmptyMap, "m", "x"), "n", "y")

\* C15: MapDelete on a key holding a map returns no error, leaves the map
\* without the entry (as it was when it had none), and keeps the key in
\* the mapping and the index.
MapDeleteLenient ==
    [][ (ret'.op = "MapDelete" /\ TypeAt(items, ret'.key) = "map")
        => LET key == ret'.key
               m == MapAt(items, key)
           IN  /\ ret'.err = NoErr
               /\ Has(items', key)
               /\ items'[key].Type = "map"
               /\ MapAt(items', key) = MapRemove(m, ret'.mkey)
               /\ ret'.mkey \notin DOMAIN m => MapAt(items', key) = m
               /\ SameElsewhere(items, items', key)
               /\ index' = index ]_vars

\* C15's case: a MapDelete returned without error on a map that holds
\* another entry only
MapDeleteLenientWitness ==
    /\ ret.op = "MapDelete"
    /\ ret.err = NoErr
    /\ ret.mkey = "m"
    /\ MapAt(items, ret.key) = MapPut(EmptyMap, "n", "y")
    /\ ret.key \in Range(Elems(index))

\* the pattern, with "*" for any run of characters, is all of subj
RECURSIVE WildMatch(_, _)
WildMatch(pattern, subj) ==
    IF pattern = <<>> THEN subj = <<>>
    ELSE IF Head(pattern) = "*"
    THEN \E n \in 0..Len(subj) :
            WildMatch(Tail(pattern), SubSeq(subj, n + 1, Len(subj)))
    ELSE /\ subj # <<>>
         /\ Head(subj) = Head(pattern)
         /\ WildMatch(Tail(pattern), Tail(subj))

\* a holds exactly the elements of b that the pattern is all of, in b's order
RECURSIVE IsWildFilter(_, _, _)
IsWildFilter(a, pattern, b) ==
    IF b = <<>> THEN a = <<>>
    ELSE IF WildMatch(pattern, Head(b))
    THEN a # <<>> /\ Head(a) = Head(b) /\ IsWildFilter(Tail(a), pattern, Tail(b))
    ELSE IsWildFilter(a, pattern, Tail(b))

\* C16: GetIndex of a pattern with "*" returns the keys of the index the
\* pattern matches from their first character to their last, "*" standing
\* for any run of characters, in the order of the index; "*" alone returns
\* the index.
GetIndexGlob ==
    (ret.op = "GetIndex" /\ ~NoWildcard(ret.key))
    => /\ ret.err = NoErr
       /\ IsWildFilter(ret.val, ret.key, Elems(index))
       /\ ret.key = <<"*">> => ret.val = Elems(index)

\* C16's case: of three keys a pattern anchored at its front returned the
\* one that starts with it and not the one that only ends with it
GetIndexGlobWitness ==
    /\ ret.op = "GetIndex"
    /\ ret.key = <<"b", "*">>
    /\ Elems(index) = << <<"a">>, <<"a", "b">>, <<"b">> >>
    /\ ret.val = << <<"b">> >>

\* C17: the slice a caller got from GetIndex holds what it held when it
\* was returned, whatever has been done to the store since.
ReturnedIsCopy == got.kept => GotNow(got, index) = got.val

\* C18: on a strictly ascending index, updateIndex adding a key gives the
\* strictly ascending index of the old keys and that key (the index as it
\* was when the key is in it), and updateIndex removing a key gives the old
\* keys without that key (the index as it was when the key is not in it);
\* the other keys keep their order.
IndexMaintenance ==
    Sorted(Elems(index))
    => \A key \in KeysOf(workload) :
          LET old == Elems(index)
              added == Elems(updateIndex(index, key, TRUE))
              removed == Elems(updateIndex(index, key, FALSE))
          IN  /\ Sorted(added)
              /\ Range(added) = Range(old) \cup {key}
              /\ key \in Range(old) => updateIndex(index, key, TRUE) = index
              /\ Without(added, key) = Without(old, key)
              /\ removed = Without(old, key)
              /\ key \notin Range(old) => updateIndex(index, key, FALSE) = index

\* C18's case: a Set put a new key between two others
IndexMaintenanceWitness ==
    /\ ret.op = "Set"
    /\ ret.prev = "absent"
    /\ ret.err = NoErr
    /\ ret.key = <<"a", "b">>
    /\ Elems(index) = << <<"a">>, <<"a", "b">>, <<"b">> >>
    /\ Cap(index) = 4

\* C19: every Item of the mapping has the Type "string", "list" or "map"
\* and only the payload of its Type set, and a Get of a present key does
\* not return the unknown-type error.
TaggedItems ==
    /\ \A k \in DOMAIN items : OnlyTaggedPayload(items[k])
    /\ (ret.op = "Get" /\ ret.prev # "absent") => ret.err = NoErr

\* C19's case: a Get of a map returned while the mapping holds an Item of
\* each Type
TaggedItemsWitness ==
    /\ ret.op = "Get"
    /\ ret.prev = "map"
    /\ ret.err = NoErr
    /\ {items[k].Type : k \in DOMAIN items} = {"string", "list", "map"}

\* C20: the lock is held only by goroutines inside an operation (the
\* exclusive lock between Lock and Unlock of a mutator, the shared lock
\* between RLock and RUnlock of Get or MapGet), so by none that has
\* returned, and every call made returns in the end.
LockReleased ==
    /\ [](\A p \in DOMAIN pc :
             /\ mutex.writer = p <=> pc[p] \in InMutation
             /\ p \in mutex.readers <=> pc[p] = "runlock")
    /\ \A p \in ProcsOf("live") : (pc[p] # "idle") ~> (pc[p] = "idle")

\* C20's case: a mutator on its way out with an error holds the lock
\* while the other goroutine waits in s.RLock()
LockReleasedWitness ==
    \E p, q \in DOMAIN pc :
        /\ pc[p] = "unlock"
        /\ loc[p].res.err # NoErr
        /\ mutex.writer = p
        /\ pc[q] = "rlock"

\* C21: Get, MapGet and GetIndex change neither the mapping nor the
\* index, whether they return a value or an error; a MapGet of an absent
\* key leaves it absent.
ReadersReadOnly ==
    [][ ret'.op \in {"Get", "MapGet", "GetIndex"}
        => /\ items' = items
           /\ index' = index ]_vars

\* C21's case: a MapGet of an absent key returned the key-not-found error
\* beside a key that is present, and the key is still absent
ReadersReadOnlyWitness ==
    /\ ret.op = "MapGet"
    /\ ret.prev = "absent"
    /\ ret.err = ErrKeyNotExist
    /\ ~Has(items, ret.key)
    /\ ret.key \notin Range(Elems(index))
    /\ index.len = 1

\* C22: Set, Delete, Append, Pop, MapSet and MapDelete of a key leave the
\* Item at every other key as it was, and every other key in the index
\* when it was in it and out of it when it was not.
OtherKeysUntouched ==
    [][ ret'.op \in Mutators
        => /\ SameElsewhere(items, items', ret'.key)
           /\ Range(Elems(index')) \ {ret'.key} = Range(Elems(index)) \ {ret'.key} ]_vars

====
